---- MODULE Spec2Model ----
(***************************************************************************)
(* Model of the metrics-server component handler                           *)
(* (pkg/handler: metricsServer.Before / Resources / After / ListPods) and  *)
(* of the RainbondCluster status types                                     *)
(* (pkg/apis/rainbond/v1alpha1/rainbondcluster_types.go).                  *)
(*                                                                         *)
(* The object store holds the cluster-scoped APIService                    *)
(* v1beta1.metrics.k8s.io (the singleton).                                  *)
(* Every client call (Get, Create, Update) is one atomic step; After() is  *)
(* two steps (its Get, then its Create or Update) so that another writer   *)
(* can act between them.                                                   *)
(***************************************************************************)
EXTENDS Integers, Sequences, FiniteSets, TLC

\* ------------------------------------------------------------------ bounds
\* resourceVersions handed out by the store are 1..MaxRV
MaxRV == 4

\* the clock of the status aggregator runs 0..MaxTime (one tick per pass)
MaxTime == 2

\* --------------------------------------------------------------- constants
MetricsServerName == "metrics-server"
metricsGroupAPI == "v1beta1.metrics.k8s.io"

Namespaces == {"platform", "other"}
SvcNames == {MetricsServerName, "other-svc"}
\* a service reference: <<namespace, name>>
Refs == Namespaces \X SvcNames

\* the absent object / the nil pointer
None == [kind |-> "none"]

\* LabelsForRainbondComponent(component): the label map built at construction
LabelsForRainbondComponent == {"belongTo=rainbond-operator", "name=metrics-server"}
\* the keys serviceForMetricsServer writes into the map
ExtraLabels == {"kubernetes.io/name=Metrics-server", "kubernetes.io/cluster-service=true"}
\* selector of a service that is not the platform's
ForeignSelector == {"k8s-app=metrics-server"}
Selectors == {ForeignSelector, LabelsForRainbondComponent}

\* the pods of the cluster (a fixed world)
Pods == {
  [name |-> "p1", ns |-> "platform", labels |-> LabelsForRainbondComponent],
  [name |-> "p2", ns |-> "platform", labels |-> ForeignSelector],
  [name |-> "p3", ns |-> "other", labels |-> LabelsForRainbondComponent],
  [name |-> "p4", ns |-> "other", labels |-> ForeignSelector],
  [name |-> "p5", ns |-> "platform", labels |-> LabelsForRainbondComponent \cup ExtraLabels],
  [name |-> "p6", ns |-> "other", labels |-> LabelsForRainbondComponent \cup ExtraLabels]}

VARIABLES
  \* ---- object store
  apisvc,        \* the stored APIService v1beta1.metrics.k8s.io, or None
  nextRV,        \* the next resourceVersion the store hands out
  \* ---- inputs of the handler
  componentNs,   \* m.component.Namespace
  clusterNs,     \* m.cluster.Namespace
  \* ---- the handler
  m_apiservice,  \* m.apiservice
  labels,        \* contents of the map m.labels points to
  pc,            \* the last step of the handler that completed
  \* ---- what the calls did (observations of the last call of each kind)
  beforeGot,     \* result of the Get of the last Before()
  beforeRet,     \* "none" | "nil" | "err"
  resRet,        \* the returns of the Resources() calls since the last Before()
  afterOwned,    \* apiServiceCreatedByRainbond() as the last After() saw it
  afterGot,      \* result of the Get of the last After()
  afterOps,      \* the store requests the last After() issued
  afterRet,      \* "none" | "nil" | "err"
  overwritten,   \* the stored object the last successful write of After() replaced
  lpRet,         \* the last ListPods(): key fetched, selector used, pods, err
  \* ---- RainbondClusterStatus and the pass of the status aggregator
  phase,         \* Status.Phase
  conditions,    \* Status.Conditions, a list of RainbondClusterCondition
  now,           \* the clock: the time of the current pass
  idx,           \* 0 between passes, else the checklist entry probed next
  begun,         \* some component has begun provisioning
  healthy,       \* every component's pods were healthy at the last recompute
  prevPhase,     \* Status.Phase before the last recompute
  observed       \* the last observation of a condition: its type and status

storeVars == <<apisvc, nextRV>>
inputVars == <<componentNs, clusterNs>>
handlerVars == <<m_apiservice, labels, pc>>
beforeObs == <<beforeGot, beforeRet>>
afterObs == <<afterOwned, afterGot, afterOps, afterRet, overwritten>>
statusVars == <<phase, conditions, now, idx, begun, healthy, prevPhase, observed>>

\* ------------------------------------------------------------ store model
APIService(ns, name, rv) == [kind |-> "APIService", ns |-> ns, name |-> name, rv |-> rv]
RefOf(o) == <<o.ns, o.name>>

\* a Get answers NotFound, the object, or a transient failure
NotFound == [kind |-> "notfound"]
Failure == [kind |-> "error"]
GetResults(stored) == {IF stored = None THEN NotFound ELSE stored, Failure}

Service(sel) == [kind |-> "Service", selector |-> sel]

\* ---------------------------------------------------------- label maps
\* A Go map is a reference: a field that holds m.labels shares the handler's
\* one map (ref), a field that holds a copy has its own contents (val).
MapRef == [ref |-> TRUE, val |-> {}]
MapCopy(s) == [ref |-> FALSE, val |-> s]
Deref(f, heap) == IF f.ref THEN heap ELSE f.val

\* ------------------------------------------------------------ the handler
\* apiServiceCreatedByRainbond comparing the name alone
apiServiceCreatedByRainbond_NameOnly(apiservice) ==
  IF apiservice = None THEN TRUE ELSE apiservice.name = MetricsServerName

\* apiServiceCreatedByRainbond comparing the namespace alone
apiServiceCreatedByRainbond_NamespaceOnly(apiservice) ==
  IF apiservice = None THEN TRUE ELSE apiservice.ns = componentNs

\* metricsServer.apiServiceCreatedByRainbond
apiServiceCreatedByRainbond(apiservice) ==
  IF apiservice = None
    THEN TRUE
    ELSE apiservice.ns = componentNs /\ apiservice.name = MetricsServerName

\* deployment() taking copies of m.labels instead of the map itself
deployment_CopiedLabels ==
  [kind |-> "Deployment", name |-> MetricsServerName, ns |-> componentNs,
   labels |-> MapCopy(labels), selector |-> MapCopy(labels), template |-> MapCopy(labels)]

\* deployment() giving the pod template a copy of m.labels
deployment_CopiedTemplate ==
  [kind |-> "Deployment", name |-> MetricsServerName, ns |-> componentNs,
   labels |-> MapRef, selector |-> MapRef, template |-> MapCopy(labels)]

\* metricsServer.deployment: Labels, Selector.MatchLabels and the template's
\* Labels all hold m.labels itself
deployment ==
  [kind |-> "Deployment", name |-> MetricsServerName, ns |-> componentNs,
   labels |-> MapRef, selector |-> MapRef, template |-> MapRef]

\* metricsServer.serviceForMetricsServer, lines 361-363: labels := m.labels
\* aliases the map, the two assignments write into it
serviceLabels(heap) == heap \cup ExtraLabels

\* metricsServer.serviceForMetricsServer, the object built
serviceForMetricsServer ==
  [kind |-> "Service", name |-> MetricsServerName, ns |-> componentNs,
   labels |-> MapRef, selector |-> MapRef]

\* metricsServer.apiserviceForMetricsServer (no ResourceVersion: rv 0)
apiserviceForMetricsServer == APIService(clusterNs, MetricsServerName, 0)

\* After() sending the update with whatever version is stored at that time
WithResourceVersion_Stored(new, fetched) ==
  [new EXCEPT !.rv = IF apisvc = None THEN fetched.rv ELSE apisvc.rv]

\* After() sending the update without the fetched resourceVersion
WithResourceVersion_NotCopied(new, fetched) == new

\* After, line 270: newAPIService.ResourceVersion = apiservice.ResourceVersion
WithResourceVersion(new, fetched) == [new EXCEPT !.rv = fetched.rv]

\* the contents of an object: every label map read through
ValueOf(o, heap) ==
  IF o.kind = "Deployment"
    THEN [kind |-> o.kind, name |-> o.name, ns |-> o.ns,
          labels |-> Deref(o.labels, heap), selector |-> Deref(o.selector, heap),
          template |-> Deref(o.template, heap)]
    ELSE [kind |-> o.kind, name |-> o.name, ns |-> o.ns,
          labels |-> Deref(o.labels, heap), selector |-> Deref(o.selector, heap)]
ValuesOf(objs, heap) == [i \in DOMAIN objs |-> ValueOf(objs[i], heap)]

\* listPods(ctx, client, namespace, labels)
listPods(ns, sel) == {p \in Pods : p.ns = ns /\ sel \subseteq p.labels}

NoRef == <<"", "">>
NoListPods ==
  [owned |-> TRUE, key |-> NoRef, svc |-> None, sel |-> {}, pods |-> {}, err |-> FALSE,
   called |-> FALSE]

\* NewMetricsServer: the state after construction
Fresh ==
  /\ m_apiservice = None
  /\ labels = LabelsForRainbondComponent
  /\ pc = "new"
  /\ beforeGot = None /\ beforeRet = "none"
  /\ resRet = <<>>
  /\ afterOwned = TRUE /\ afterGot = None /\ afterOps = <<>> /\ afterRet = "none"
  /\ overwritten = None
  /\ lpRet = NoListPods

\* a RainbondCluster whose status has not been written yet
StatusFresh ==
  /\ phase = "Pending"
  /\ conditions = <<>>
  /\ now = 0
  /\ idx = 0
  /\ begun = FALSE
  /\ healthy = FALSE
  /\ prevPhase = "Pending"
  /\ observed = [type |-> "", status |-> "Unknown"]

Init ==
  /\ StatusFresh
  /\ componentNs \in Namespaces
  /\ clusterNs \in Namespaces
  /\ \/ apisvc = None /\ nextRV = 1
     \/ \E ref \in Refs : apisvc = APIService(ref[1], ref[2], 1) /\ nextRV = 2
  /\ Fresh

\* NewMetricsServer: the driver builds a new handler for the next pass
NewMetricsServer ==
  /\ pc \in {"listpods", "before_err"}
  /\ m_apiservice' = None
  /\ labels' = LabelsForRainbondComponent
  /\ pc' = "new"
  /\ beforeGot' = None /\ beforeRet' = "none"
  /\ resRet' = <<>>
  /\ afterOwned' = TRUE /\ afterGot' = None /\ afterOps' = <<>> /\ afterRet' = "none"
  /\ overwritten' = None
  /\ lpRet' = NoListPods
  /\ UNCHANGED <<statusVars, storeVars, inputVars>>

\* Before() returning every error of the Get, NotFound too
BeforeReturn_NotFoundIsError(r) == IF r \in {Failure, NotFound} THEN "err" ELSE "nil"

\* metricsServer.Before, lines 224-231: what the call returns for the answer
\* of its Get
BeforeReturn(r) == IF r = Failure THEN "err" ELSE "nil"

\* Before() creating the APIService when it finds none
Before_CreatesWhenMissing ==
  /\ pc \in {"new", "before", "before_err", "listpods"}
  /\ \E r \in GetResults(apisvc) :
       /\ beforeGot' = r
       /\ beforeRet' = BeforeReturn(r)
       /\ IF BeforeReturn(r) = "err"
            THEN pc' = "before_err" /\ UNCHANGED <<m_apiservice, storeVars>>
            ELSE /\ pc' = "before"
                 /\ m_apiservice' = IF r = NotFound THEN m_apiservice ELSE r
                 /\ IF r = NotFound /\ nextRV <= MaxRV
                      THEN /\ apisvc' = [apiserviceForMetricsServer EXCEPT !.rv = nextRV]
                           /\ nextRV' = nextRV + 1
                      ELSE UNCHANGED storeVars
  /\ resRet' = <<>>
  /\ UNCHANGED <<statusVars, inputVars, labels, afterObs, lpRet>>

\* metricsServer.Before
Before ==
  /\ pc \in {"new", "before", "before_err", "listpods"}
  /\ \E r \in GetResults(apisvc) :
       /\ beforeGot' = r
       /\ beforeRet' = BeforeReturn(r)
       /\ IF BeforeReturn(r) = "err"
            THEN pc' = "before_err" /\ UNCHANGED m_apiservice
            ELSE /\ pc' = "before"
                 /\ m_apiservice' = IF r = NotFound THEN m_apiservice ELSE r
  /\ resRet' = <<>>
  /\ UNCHANGED <<statusVars, storeVars, inputVars, labels, afterObs, lpRet>>

\* the last two returns of Resources()
Remember(hist, ret) == IF Len(hist) < 2 THEN Append(hist, ret) ELSE <<hist[2], ret>>

\* metricsServer.Resources: nil when not created by Rainbond, else
\* deployment() then serviceForMetricsServer(); the return is remembered both
\* as the objects (whose maps are shared) and as their contents at the return
Resources ==
  /\ pc \in {"before", "resources"}
  /\ pc' = "resources"
  /\ IF ~apiServiceCreatedByRainbond(m_apiservice)
       THEN /\ labels' = labels
            /\ resRet' = Remember(resRet, [objs |-> <<>>, snap |-> <<>>])
       ELSE LET ds == deployment
                heap1 == serviceLabels(labels)
                svc == serviceForMetricsServer
                objs == <<ds, svc>>
            IN /\ labels' = heap1
               /\ resRet' = Remember(resRet, [objs |-> objs, snap |-> ValuesOf(objs, heap1)])
  /\ UNCHANGED <<statusVars, storeVars, inputVars, m_apiservice, beforeObs, afterObs, lpRet>>

\* a request After() sends to the store
Op(name, rv) == [op |-> name, rv |-> rv]

\* After() recording the APIService its own Get fetched
AfterGet_RecordsFetched ==
  /\ pc = "resources"
  /\ afterOwned' = apiServiceCreatedByRainbond(m_apiservice)
  /\ overwritten' = None
  /\ IF ~apiServiceCreatedByRainbond(m_apiservice)
       THEN /\ afterGot' = None /\ afterOps' = <<>> /\ afterRet' = "nil" /\ pc' = "after"
            /\ UNCHANGED m_apiservice
       ELSE \E r \in GetResults(apisvc) :
              /\ afterGot' = r
              /\ afterOps' = <<Op("get", 0)>>
              /\ m_apiservice' = IF r \in {NotFound, Failure} THEN m_apiservice ELSE r
              /\ IF r = Failure
                   THEN afterRet' = "err" /\ pc' = "after"
                   ELSE afterRet' = "none" /\ pc' = "after_write"
  /\ UNCHANGED <<statusVars, storeVars, inputVars, labels, beforeObs, resRet, lpRet>>

\* metricsServer.After, lines 253-262: the ownership test and the Get
AfterGet ==
  /\ pc = "resources"
  /\ afterOwned' = apiServiceCreatedByRainbond(m_apiservice)
  /\ overwritten' = None
  /\ IF ~apiServiceCreatedByRainbond(m_apiservice)
       THEN afterGot' = None /\ afterOps' = <<>> /\ afterRet' = "nil" /\ pc' = "after"
       ELSE \E r \in GetResults(apisvc) :
              /\ afterGot' = r
              /\ afterOps' = <<Op("get", 0)>>
              /\ IF r = Failure
                   THEN afterRet' = "err" /\ pc' = "after"
                   ELSE afterRet' = "none" /\ pc' = "after_write"
  /\ UNCHANGED <<statusVars, storeVars, inputVars, m_apiservice, labels, beforeObs, resRet, lpRet>>

\* metricsServer.After, lines 263-266: Create when the Get answered NotFound.
\* The store creates the object when none is stored, else answers
\* AlreadyExists; any request can fail.
AfterCreate ==
  /\ pc = "after_write" /\ afterGot = NotFound
  /\ LET req == apiserviceForMetricsServer IN
       /\ afterOps' = Append(afterOps, Op("create", req.rv))
       /\ \/ /\ apisvc = None /\ nextRV <= MaxRV
             /\ apisvc' = [req EXCEPT !.rv = nextRV]
             /\ nextRV' = nextRV + 1
             /\ overwritten' = None
             /\ afterRet' = "nil"
          \/ /\ afterRet' = "err"
             /\ UNCHANGED <<apisvc, nextRV, overwritten>>
  /\ pc' = "after"
  /\ UNCHANGED <<statusVars, inputVars, m_apiservice, labels, beforeObs, resRet, afterOwned, afterGot, lpRet>>

\* After() fetching the APIService again and updating it with the version it
\* then holds, when the first update is answered Conflict
AfterUpdate_RetriesOnConflict ==
  /\ pc = "after_write" /\ afterGot # NotFound
  /\ LET req == WithResourceVersion(apiserviceForMetricsServer, afterGot) IN
       \/ /\ apisvc # None /\ nextRV <= MaxRV
          /\ afterOps' = IF apisvc.rv = req.rv
                           THEN Append(afterOps, Op("update", req.rv))
                           ELSE afterOps \o <<Op("update", req.rv), Op("get", 0),
                                              Op("update", apisvc.rv)>>
          /\ apisvc' = [req EXCEPT !.rv = nextRV]
          /\ nextRV' = nextRV + 1
          /\ overwritten' = apisvc
          /\ afterRet' = "nil"
       \/ /\ afterOps' = Append(afterOps, Op("update", req.rv))
          /\ afterRet' = "err"
          /\ UNCHANGED <<apisvc, nextRV, overwritten>>
  /\ pc' = "after"
  /\ UNCHANGED <<statusVars, inputVars, m_apiservice, labels, beforeObs, resRet, afterOwned, afterGot, lpRet>>

\* metricsServer.After, lines 269-274: Update with the fetched
\* resourceVersion. The store replaces the object when the version is the
\* stored one, else answers Conflict (NotFound when none is stored).
AfterUpdate ==
  /\ pc = "after_write" /\ afterGot # NotFound
  /\ LET req == WithResourceVersion(apiserviceForMetricsServer, afterGot) IN
       /\ afterOps' = Append(afterOps, Op("update", req.rv))
       /\ \/ /\ apisvc # None /\ apisvc.rv = req.rv /\ nextRV <= MaxRV
             /\ apisvc' = [req EXCEPT !.rv = nextRV]
             /\ nextRV' = nextRV + 1
             /\ overwritten' = apisvc
             /\ afterRet' = "nil"
          \/ /\ afterRet' = "err"
             /\ UNCHANGED <<apisvc, nextRV, overwritten>>
  /\ pc' = "after"
  /\ UNCHANGED <<statusVars, inputVars, m_apiservice, labels, beforeObs, resRet, afterOwned, afterGot, lpRet>>

\* ListPods() listing by m.labels whoever owns the APIService
ListPodsLabels_AlwaysOwn(owned, mlabels, svcSelector) == mlabels

\* metricsServer.ListPods, line 278-286: the label set the pods are listed by
ListPodsLabels(owned, mlabels, svcSelector) == IF owned THEN mlabels ELSE svcSelector

\* metricsServer.ListPods, line 280-282: the service fetched when not owned
ListPodsKey(apiservice) == RefOf(apiservice)

\* the Services another party may have stored under a reference
StoredServices == {None} \cup {Service(sel) : sel \in Selectors}

\* metricsServer.ListPods. The Service store belongs to the rest of the
\* cluster: what it holds under the reference at the time of the Get is an
\* input of the call (svc).
ListPods ==
  /\ pc = "after"
  /\ pc' = "listpods"
  /\ LET owned == apiServiceCreatedByRainbond(m_apiservice) IN
       IF owned
         THEN lpRet' = [owned |-> TRUE, key |-> NoRef, svc |-> None, sel |-> labels,
                        pods |-> listPods(componentNs, ListPodsLabels(TRUE, labels, {})),
                        err |-> FALSE, called |-> TRUE]
         ELSE LET key == ListPodsKey(m_apiservice) IN
              \E stored \in StoredServices : \E r \in GetResults(stored) :
                IF r \in {NotFound, Failure}
                  THEN lpRet' = [owned |-> FALSE, key |-> key, svc |-> stored, sel |-> {},
                                 pods |-> {}, err |-> TRUE, called |-> TRUE]
                  ELSE LET sel == ListPodsLabels(FALSE, labels, r.selector) IN
                       lpRet' = [owned |-> FALSE, key |-> key, svc |-> stored, sel |-> sel,
                                 pods |-> listPods(componentNs, sel),
                                 err |-> FALSE, called |-> TRUE]
  /\ UNCHANGED <<statusVars, storeVars, inputVars, m_apiservice, labels, beforeObs, resRet, afterObs>>

\* ------------------------------------------------- the rest of the cluster
\* another writer creates or replaces the APIService
ForeignPut ==
  /\ nextRV <= MaxRV
  /\ \E ref \in Refs : apisvc' = APIService(ref[1], ref[2], nextRV)
  /\ nextRV' = nextRV + 1
  /\ UNCHANGED <<statusVars, inputVars, handlerVars, beforeObs, resRet, afterObs, lpRet>>

\* another writer deletes the APIService
ForeignDelete ==
  /\ apisvc # None
  /\ apisvc' = None
  /\ UNCHANGED <<statusVars, nextRV, inputVars, handlerVars, beforeObs, resRet, afterObs, lpRet>>

vars == <<apisvc, nextRV, componentNs, clusterNs, m_apiservice, labels, pc,
          beforeGot, beforeRet, resRet, afterOwned, afterGot, afterOps, afterRet,
          overwritten, lpRet, phase, conditions, now, idx, begun, healthy, prevPhase,
          observed>>

Handler == NewMetricsServer \/ Before \/ Resources \/ AfterGet \/ AfterCreate \/ AfterUpdate \/ ListPods

Next ==
  \/ NewMetricsServer
  \/ Before
  \/ Resources
  \/ AfterGet
  \/ AfterCreate
  \/ AfterUpdate
  \/ ListPods
  \/ ForeignPut
  \/ ForeignDelete

Spec == Init /\ [][Next]_vars

\* an empty cluster, and nobody but the handler writes the APIService
InitQuiet == Init /\ apisvc = None

NextQuiet ==
  \/ NewMetricsServer
  \/ Before
  \/ Resources
  \/ AfterGet
  \/ AfterCreate
  \/ AfterUpdate
  \/ ListPods

SpecQuiet == InitQuiet /\ [][NextQuiet]_vars

\* --------------------------------------------------- the status aggregator
\* RainbondClusterConditionType: the checklist, in the order of the constants
Checklist ==
  <<"StorageReady", "ImageRepositoryInstalled", "PackageExtracted", "ImageLoaded",
    "ImagePushed">>
\* ConditionStatus
Statuses == {"True", "False", "Unknown"}
\* RainbondClusterPhase
Phases == {"Pending", "Installing", "Running"}

\* RainbondClusterCondition
Condition(type, status, probe, transition, reason, message) ==
  [type |-> type, status |-> status, lastProbeTime |-> probe,
   lastTransitionTime |-> transition, reason |-> reason, message |-> message]

\* what a probe reports at time t: a status, with the reason and the message
\* of that observation
Observation(status, t) ==
  [status |-> status, reason |-> <<"reason", t>>, message |-> <<"message", t>>]

\* the update rule resetting lastTransitionTime at every observation
ObserveCondition_AlwaysTransition(c, obs, t) ==
  IF c.status # obs.status
    THEN Condition(c.type, obs.status, t, t, obs.reason, obs.message)
    ELSE [c EXCEPT !.lastProbeTime = t, !.lastTransitionTime = t]

\* the update rule of a stored condition for one observation
ObserveCondition(c, obs, t) ==
  IF c.status # obs.status
    THEN Condition(c.type, obs.status, t, t, obs.reason, obs.message)
    ELSE [c EXCEPT !.lastProbeTime = t]

\* the condition of the type is updated where it is stored, else appended
UpdateCondition(conds, type, obs, t) ==
  IF \E i \in DOMAIN conds : conds[i].type = type
    THEN [i \in DOMAIN conds |->
            IF conds[i].type = type THEN ObserveCondition(conds[i], obs, t) ELSE conds[i]]
    ELSE Append(conds, Condition(type, obs.status, t, t, obs.reason, obs.message))

AllTrue(conds) ==
  \A k \in DOMAIN Checklist :
    \E i \in DOMAIN conds : conds[i].type = Checklist[k] /\ conds[i].status = "True"

\* the phase recompute leaving the components' health out
PhaseOf_ConditionsOnly(conds, health, provisioning) ==
  IF AllTrue(conds) THEN "Running"
  ELSE IF provisioning THEN "Installing"
  ELSE "Pending"

\* the phase recompute
PhaseOf(conds, health, provisioning) ==
  IF AllTrue(conds) /\ health THEN "Running"
  ELSE IF provisioning THEN "Installing"
  ELSE "Pending"

handlerAll ==
  <<apisvc, nextRV, componentNs, clusterNs, m_apiservice, labels, pc, beforeGot, beforeRet,
    resRet, afterOwned, afterGot, afterOps, afterRet, overwritten, lpRet>>

\* a pass begins: the clock ticks
StartPass ==
  /\ idx = 0 /\ now < MaxTime
  /\ now' = now + 1
  /\ idx' = 1
  /\ UNCHANGED <<handlerAll, phase, conditions, begun, healthy, prevPhase, observed>>

\* the next checklist entry is probed and its condition updated
Probe ==
  /\ idx \in DOMAIN Checklist
  /\ \E st \in Statuses :
       /\ conditions' = UpdateCondition(conditions, Checklist[idx], Observation(st, now), now)
       /\ observed' = [type |-> Checklist[idx], status |-> st]
  /\ idx' = idx + 1
  /\ UNCHANGED <<handlerAll, phase, now, begun, healthy, prevPhase>>

\* the pass ends: the phase is recomputed from the conditions and from what
\* the components report (b: a component began provisioning in this pass,
\* h: every component has its expected healthy instances, which it cannot
\* have before it began)
Recompute ==
  /\ idx = Len(Checklist) + 1
  /\ \E b \in BOOLEAN, h \in BOOLEAN :
       /\ h => (begun \/ b)
       /\ begun' = (begun \/ b)
       /\ healthy' = h
       /\ phase' = PhaseOf(conditions, h, begun \/ b)
  /\ prevPhase' = phase
  /\ idx' = 0
  /\ UNCHANGED <<handlerAll, conditions, now, observed>>

InitStatus == Init /\ apisvc = None /\ componentNs = "platform" /\ clusterNs = "platform"

NextStatus ==
  \/ StartPass
  \/ Probe
  \/ Recompute

SpecStatus == InitStatus /\ [][NextStatus]_vars

\* ================================================================ claims
\* the identity apiServiceCreatedByRainbond expects of the platform's own
\* APIService: the component's namespace and the name metrics-server
ExpectedRef == <<componentNs, MetricsServerName>>
IsAPIService(o) == o.kind = "APIService"
Kinds(objs) == [i \in DOMAIN objs |-> objs[i].kind]
\* the decision Before() left is "not owned": it recorded an APIService whose
\* service reference is not the expected one
DecidedForeign == IsAPIService(m_apiservice) /\ RefOf(m_apiservice) # ExpectedRef

\* C1: a successful write of After() never replaces a stored APIService whose
\* service reference differs from the platform's expected identity, whatever
\* another writer does between Before() and After().
C1_NeverOverwritesForeign ==
  IsAPIService(overwritten) => RefOf(overwritten) = ExpectedRef

\* C2: when the last Before() fetched an APIService whose service reference is
\* not the expected identity, the handler is not the owner and every
\* Resources() call since returned the empty set.
C2_ForeignMeansEmpty ==
  (beforeRet = "nil" /\ IsAPIService(beforeGot) /\ RefOf(beforeGot) # ExpectedRef)
    => /\ ~apiServiceCreatedByRainbond(m_apiservice)
       /\ m_apiservice = beforeGot
       /\ \A i \in DOMAIN resRet : resRet[i].objs = <<>>

C2_Witness ==
  /\ componentNs = "platform"
  /\ beforeRet = "nil" /\ IsAPIService(beforeGot)
  /\ RefOf(beforeGot) = <<"other", "other-svc">>
  /\ Len(resRet) = 1 /\ resRet[1].objs = <<>>

\* C3: when the decision is "not owned", the After() call sends nothing to the
\* store, returns nil and leaves the stored APIService as it is.
C3_AfterSkippedWhenForeign ==
  [][(pc = "resources" /\ pc' # "resources" /\ DecidedForeign)
       => (afterOps' = <<>> /\ afterRet' = "nil" /\ pc' = "after"
           /\ apisvc' = apisvc /\ nextRV' = nextRV)]_vars

C3_Witness ==
  /\ pc = "after" /\ DecidedForeign /\ afterRet = "nil" /\ afterOps = <<>>
  /\ IsAPIService(apisvc)

\* C4: when the Before() call observed NotFound, the handler is the owner and
\* every Resources() call since returned the workload then the endpoint.
C4_NotFoundMeansOwned ==
  (beforeRet = "nil" /\ beforeGot = NotFound)
    => /\ apiServiceCreatedByRainbond(m_apiservice)
       /\ \A i \in DOMAIN resRet : Kinds(resRet[i].objs) = <<"Deployment", "Service">>

\* C5: an After() call of an owner that found no APIService sent one create
\* without resourceVersion and no update; one that found an APIService sent
\* one update carrying the resourceVersion it fetched and no create.
C5_CreateOrUpdate ==
  (afterRet # "none" /\ afterOwned /\ (afterGot = NotFound \/ IsAPIService(afterGot)))
    => IF afterGot = NotFound
         THEN afterOps = <<Op("get", 0), Op("create", 0)>>
         ELSE afterOps = <<Op("get", 0), Op("update", afterGot.rv)>>

C5_Witness ==
  /\ afterRet = "nil" /\ afterOwned /\ IsAPIService(afterGot)
  /\ IsAPIService(overwritten) /\ overwritten = afterGot
  /\ afterOps = <<Op("get", 0), Op("update", afterGot.rv)>>

\* C6: two Resources() calls in a row return the same objects, field by
\* field: as each was when its call returned, and as both are now.
C6_ResourcesTwiceEqual ==
  Len(resRet) = 2
    => /\ resRet[1].snap = resRet[2].snap
       /\ ValuesOf(resRet[1].objs, labels) = ValuesOf(resRet[2].objs, labels)

C6_Witness ==
  /\ Len(resRet) = 2
  /\ Kinds(resRet[1].objs) = <<"Deployment", "Service">>
  /\ Kinds(resRet[2].objs) = <<"Deployment", "Service">>

\* C7: a ListPods() call of a handler that is not the owner fetched the Service
\* the recorded APIService refers to and listed by that Service's selector;
\* when the Service could not be fetched it returned an error and no pods.
C7_ListPodsFollowsForeignService ==
  (pc = "listpods" /\ DecidedForeign)
    => /\ lpRet.called /\ lpRet.key = RefOf(m_apiservice)
       /\ lpRet.svc = None => lpRet.err
       /\ lpRet.err => lpRet.pods = {}
       /\ ~lpRet.err => (lpRet.svc # None /\ lpRet.sel = lpRet.svc.selector)

C7_Witness ==
  /\ pc = "listpods" /\ DecidedForeign
  /\ RefOf(m_apiservice) = <<"other", "other-svc">>
  /\ ~lpRet.err /\ lpRet.sel = ForeignSelector /\ lpRet.sel # labels
  /\ lpRet.pods # {}

\* C8: from an empty cluster where only the handler writes the APIService:
\* Before() observes NotFound and returns nil, Resources() returns the workload
\* and the endpoint, After() creates the APIService; and in every later pass
\* the handler still owns the APIService it finds and updates it.
C8_EndToEnd ==
  /\ (beforeRet = "nil" /\ beforeGot = NotFound)
       => \A i \in DOMAIN resRet : Kinds(resRet[i].objs) = <<"Deployment", "Service">>
  /\ (afterRet = "nil" /\ afterGot = NotFound) => IsAPIService(apisvc)
  /\ (beforeRet = "nil" /\ IsAPIService(beforeGot))
       => /\ apiServiceCreatedByRainbond(m_apiservice)
          /\ pc \in {"after", "listpods"} /\ afterRet = "nil"
               => afterOps = <<Op("get", 0), Op("update", afterGot.rv)>>

\* the phase changes a recompute may make
Edge(from, to) == <<from, to>>
Stays == {Edge(p, p) : p \in Phases}
AnyFalse(conds) == \E i \in DOMAIN conds : conds[i].status = "False"

\* what the phase gating claims of the state between two passes
PhaseGated ==
  /\ (idx = 0 /\ phase = "Running") => (AllTrue(conditions) /\ healthy)
  /\ (idx = 0 /\ prevPhase = "Running" /\ AnyFalse(conditions)) => phase = "Installing"

HasCondition(conds, type) == \E i \in DOMAIN conds : conds[i].type = type
ConditionOf(conds, type) == conds[CHOOSE i \in DOMAIN conds : conds[i].type = type]

\* C10: the conditions hold at most one entry of a type; an observation sets
\* lastProbeTime of its condition to the time of the observation, and leaves
\* the rest of the condition as it was when the observed status is the stored
\* one.
C10_ConditionDiscipline ==
  /\ [](\A i, j \in DOMAIN conditions :
          conditions[i].type = conditions[j].type => i = j)
  /\ [][(idx \in DOMAIN Checklist /\ idx' = idx + 1)
          => /\ HasCondition(conditions', Checklist[idx])
             /\ ConditionOf(conditions', Checklist[idx]).lastProbeTime = now
             /\ (/\ HasCondition(conditions, Checklist[idx])
                 /\ ConditionOf(conditions, Checklist[idx]).status = observed'.status)
                  => ConditionOf(conditions', Checklist[idx]) =
                       [ConditionOf(conditions, Checklist[idx]) EXCEPT !.lastProbeTime = now]]_vars

C10_Witness ==
  /\ Len(conditions) = Len(Checklist)
  /\ \E i \in DOMAIN conditions :
       /\ conditions[i].lastProbeTime = 2 /\ conditions[i].lastTransitionTime = 1
       /\ observed = [type |-> conditions[i].type, status |-> conditions[i].status]

\* C11: when the stored APIService is no longer the one After() fetched (it
\* was replaced or deleted in between), the update fails: After() returns an
\* error and the store keeps what the other writer left.
C11_StaleUpdateRejected ==
  [][(pc = "after_write" /\ IsAPIService(afterGot) /\ apisvc # afterGot /\ pc' # pc)
       => (afterRet' = "err" /\ apisvc' = apisvc /\ nextRV' = nextRV)]_vars

C11_Witness ==
  /\ pc = "after" /\ afterRet = "err"
  /\ IsAPIService(afterGot) /\ IsAPIService(apisvc)
  /\ afterOps = <<Op("get", 0), Op("update", afterGot.rv)>>
  /\ apisvc.rv > afterGot.rv
  /\ RefOf(apisvc) # RefOf(apiserviceForMetricsServer)

\* C12: where only the handler writes the APIService, every stored
\* APIService carries the service reference the adoption check expects, and
\* a Before() that fetches it leaves the handler the owner.
C12_AdoptionRoundTrip ==
  /\ IsAPIService(apisvc) => RefOf(apisvc) = ExpectedRef
  /\ (beforeRet = "nil" /\ IsAPIService(beforeGot)) => apiServiceCreatedByRainbond(m_apiservice)

\* C13: right after a Before() that observed NotFound the handler is the
\* owner, whatever its earlier calls recorded.
C13_NotFoundAlwaysOwned ==
  (pc = "before" /\ beforeGot = NotFound) => apiServiceCreatedByRainbond(m_apiservice)

\* C14: the recorded APIService changes only in Before() (and when a new
\* handler is built): Resources(), After(), ListPods() and the other writers
\* leave it alone, so within a pass Resources(), After() and ListPods() acted
\* on the decision the handler holds now.
C14_DecisionOnlyInBefore ==
  /\ [][m_apiservice' # m_apiservice => pc' \in {"before", "new"}]_vars
  /\ [](/\ pc \in {"resources", "after_write", "after", "listpods"}
           => \A i \in DOMAIN resRet :
                (resRet[i].objs # <<>>) = apiServiceCreatedByRainbond(m_apiservice)
        /\ pc \in {"after_write", "after", "listpods"}
           => afterOwned = apiServiceCreatedByRainbond(m_apiservice)
        /\ pc = "listpods"
           => lpRet.owned = apiServiceCreatedByRainbond(m_apiservice))

C14_Witness ==
  /\ pc = "listpods" /\ ~lpRet.owned /\ ~afterOwned
  /\ Len(resRet) >= 1 /\ resRet[1].objs = <<>>
  /\ IsAPIService(m_apiservice) /\ IsAPIService(apisvc)
  /\ RefOf(apisvc) = ExpectedRef /\ apisvc # m_apiservice

\* C15: a Before() call leaves the store as it is; and a Before() call that
\* gets the answer the call before it got leaves the recorded APIService and
\* its return value as that call left them.
C15_BeforeReadOnlyIdempotent ==
  [][Before
       => /\ apisvc' = apisvc /\ nextRV' = nextRV
          /\ (pc \in {"before", "before_err"} /\ beforeGot' = beforeGot)
               => (m_apiservice' = m_apiservice /\ beforeRet' = beforeRet)]_vars

\* the store never changed, a whole pass ran, and Before() ran again
C15_Witness ==
  /\ nextRV = 2 /\ IsAPIService(apisvc) /\ apisvc.rv = 1
  /\ pc = "before" /\ beforeRet = "nil" /\ beforeGot = apisvc /\ m_apiservice = apisvc
  /\ lpRet.called /\ ~lpRet.owned /\ lpRet.key = RefOf(apisvc)

\* C16: a Get that fails otherwise than with NotFound makes Before(), and
\* After(), return an error, with no create and no update sent and the
\* recorded APIService and the store left as they were; a Get that answers
\* NotFound makes Before() return nil and After() go on to its create, so that
\* an error After() returns then is the create's.
C16_ReadFailures ==
  /\ [](/\ beforeGot = Failure => beforeRet = "err"
        /\ beforeGot = NotFound => beforeRet = "nil"
        /\ afterGot = Failure => (afterRet = "err" /\ afterOps = <<Op("get", 0)>>)
        /\ (afterGot = NotFound /\ afterRet # "none")
             => afterOps = <<Op("get", 0), Op("create", 0)>>)
  /\ [][((Before /\ beforeGot' = Failure) \/ (AfterGet /\ afterGot' = Failure))
          => (m_apiservice' = m_apiservice /\ apisvc' = apisvc /\ nextRV' = nextRV)]_vars

\* After() failed on its Get, and the Before() of the next pass failed too
C16_Witness ==
  /\ pc = "before_err" /\ beforeGot = Failure /\ beforeRet = "err"
  /\ afterGot = Failure /\ afterRet = "err" /\ afterOps = <<Op("get", 0)>>
  /\ IsAPIService(m_apiservice) /\ m_apiservice = apisvc

\* the update After() is about to send will be answered Conflict
UpdateConflicts ==
  /\ pc = "after_write" /\ IsAPIService(afterGot)
  /\ IsAPIService(apisvc) /\ apisvc.rv # afterGot.rv

\* C17 as stated: an update answered Conflict is not surfaced by After()
\* before it has fetched the APIService again and sent the update again.
C17_ConflictRetriedInAfter ==
  [][(UpdateConflicts /\ pc' # pc)
       => (afterRet' = "err" => Len(afterOps') > 2)]_vars

\* C17, amended: an update answered Conflict makes After() return the error at
\* once, after its one Get and its one Update with the version it fetched, and
\* the store keeps the newer APIService; the update is sent again only by the
\* After() of a later pass.
C17_ConflictSurfacedAtOnce ==
  [][(UpdateConflicts /\ pc' # pc)
       => /\ pc' = "after" /\ afterRet' = "err"
          /\ afterOps' = <<Op("get", 0), Op("update", afterGot.rv)>>
          /\ apisvc' = apisvc /\ nextRV' = nextRV]_vars

\* After() returned on a Conflict, and the Before() of the next pass fetched
\* the newer APIService
C17_Witness ==
  /\ pc = "before" /\ lpRet.called /\ beforeGot = apisvc
  /\ afterRet = "err" /\ IsAPIService(afterGot) /\ IsAPIService(apisvc)
  /\ afterOps = <<Op("get", 0), Op("update", afterGot.rv)>>
  /\ apisvc.rv # afterGot.rv

\* C18: the handler's label map holds what it held at construction, the
\* workload of every Resources() return carries none of the keys written for
\* the endpoint in its labels and its selector, and a ListPods() call of an
\* owner listed by the label set of the construction.
C18_LabelsNotMutated ==
  /\ labels = LabelsForRainbondComponent
  /\ \A i \in DOMAIN resRet :
       resRet[i].objs # <<>>
         => LET ds == ValueOf(resRet[i].objs[1], labels) IN
            /\ ds.labels \cap ExtraLabels = {}
            /\ ds.selector \cap ExtraLabels = {}
  /\ (pc = "listpods" /\ lpRet.owned) => lpRet.sel = LabelsForRainbondComponent

\* the workload selects its own pods and the endpoint routes to them
SelectorsMatch(objs) ==
  /\ objs[1].selector \subseteq objs[1].template
  /\ objs[2].selector \subseteq objs[1].template

\* C19: in every non-empty Resources() return, as it was when the call
\* returned and as it is at any time after, the workload's selector and the
\* endpoint's selector are subsets of the labels of the workload's pod
\* template.
C19_SelectorsWithinTemplate ==
  \A i \in DOMAIN resRet :
    resRet[i].objs # <<>>
      => /\ SelectorsMatch(resRet[i].snap)
         /\ SelectorsMatch(ValuesOf(resRet[i].objs, labels))

\* the keys written for the endpoint are in the workload's selector
C19_Witness ==
  /\ pc = "after" /\ afterRet = "nil" /\ Len(resRet) = 2
  /\ Kinds(resRet[1].objs) = <<"Deployment", "Service">>
  /\ ExtraLabels \subseteq resRet[1].snap[1].selector
  /\ ExtraLabels \subseteq ValueOf(resRet[2].objs[1], labels).template

\* C20: a ListPods() call of a handler that is not the owner, when it fetched
\* the Service, returned the pods of the namespace of the recorded APIService's
\* service reference that match that Service's selector.
C20_ForeignPodsFromForeignNamespace ==
  (pc = "listpods" /\ DecidedForeign /\ ~lpRet.err)
    => lpRet.pods = listPods(lpRet.key[1], lpRet.svc.selector)

====
